---------------------------- MODULE Spec2Model ----------------------------
(***************************************************************************)
(* Session controller of the slkops terminal chat client (src/main.go).    *)
(*                                                                         *)
(* The program is a bubbletea model: one Update step per message, each     *)
(* returning the commands the runtime then runs concurrently.  The model   *)
(* keeps the fields of the `model` struct, the message last passed to      *)
(* Update, the commands it returned, and the tasks the runtime has in      *)
(* flight (poll timers, fetches, send-then-tick sequences).                *)
(*                                                                         *)
(* Encodings.  A Slack timestamp "S.F" (the message id) is the integer     *)
(* S * TsScale + F; the empty string is EmptyTs.  Input lines are          *)
(* sequences of one-character strings.                                     *)
(***************************************************************************)
EXTENDS Integers, Sequences, FiniteSets

VARIABLES
    messages,      \* m.messages: sequence of formattedMessage
    messageIDs,    \* m.messageIDs: ids already processed
    viewport,      \* content set on m.viewport
    err,           \* m.err
    ready,         \* m.ready
    lastFetched,   \* m.lastFetched
    input,         \* m.input.Value()
    history,       \* m.history
    historyIndex,  \* m.historyIndex
    browsingHist,  \* m.browsingHist
    refreshCount,  \* m.refreshCount
    historyFile,   \* lines of the file at m.historyFile
    lastMsg,       \* the tea.Msg last passed to Update
    cmds,          \* the tea.Cmd Update returned for it
    timers,        \* poll timers armed (tick())
    fetching,      \* fetchMessages commands running
    seqs,          \* tea.Sequence(send, settle tick) goroutines, one per submit
    quit           \* tea.Quit was returned: the event loop has ended

modelVars == <<messages, messageIDs, viewport, err, ready, lastFetched, input,
               history, historyIndex, browsingHist, refreshCount>>
taskVars == <<timers, fetching, seqs, quit>>
vars == <<modelVars, historyFile, lastMsg, cmds, taskVars>>

----------------------------------------------------------------------------
(* Bounds of the model *)

NumIds == 3        \* distinct message ids the service can return (WatchSpec)
MaxBatch == 2      \* messages in one fetch result (WatchSpec)
NumSessionIds == 1 \* distinct message ids the service can return (Spec)
MaxTicks == 2      \* poll timer firings
MaxSubmits == 1    \* submits whose line is sent
MaxInput == 2      \* characters typed into the input
MaxHistSubmits == 2 \* submits whose line is sent (HistSpec)
MaxFileLines == 1  \* lines of the history file at the start (HistSpec)

TsScale == 10      \* fractional steps per second in the encoding of "S.F"
EmptyTs == 0       \* the empty string ""

----------------------------------------------------------------------------
(* Values *)

NoErr == "nil"
FetchError == "fetch error"
SendError == "send error"
WriteError == "history write error"

\* Message ids: "1.1", "1.0", "2.1", "2.0", ... two ids per second.
IdsUpTo(n) == {TsScale * ((i + 1) \div 2) + (i % 2) : i \in 1..n}

Ids == IdsUpTo(NumIds)

Chars == {" ", "a"}

\* history.Messages of a successful client.History call.
Batches == UNION {[1..n -> Ids] : n \in 1..MaxBatch}

\* The one-message pages a session of Spec is served
SessionBatches == [1..1 -> IdsUpTo(NumSessionIds)]

FetchCmd(cursor) == [cmd |-> "fetchMessages", since |-> cursor]
TickCmd == [cmd |-> "tick", since |-> EmptyTs]
SequenceCmd == [cmd |-> "sequence", since |-> EmptyTs]
QuitCmd == [cmd |-> "quit", since |-> EmptyTs]

----------------------------------------------------------------------------
(* Pure helpers *)

\* strings.TrimSpace on a line of Chars
RECURSIVE TrimLeft(_)
TrimLeft(s) ==
    IF s # <<>> /\ Head(s) = " " THEN TrimLeft(Tail(s)) ELSE s

RECURSIVE TrimRight(_)
TrimRight(s) ==
    IF s # <<>> /\ s[Len(s)] = " " THEN TrimRight(SubSeq(s, 1, Len(s) - 1)) ELSE s

TrimSpace(s) == TrimRight(TrimLeft(s))

\* ts, _ := strconv.ParseFloat(message.Ts, 64); time.Unix(int64(ts), 0):
\* the fraction is truncated, the empty string fails to parse and gives 0.
Timestamp(ts) == IF ts = EmptyTs THEN 0 ELSE ts \div TsScale

\* fmt.Sprintf("%s %s: %s", time, username, text): the line of one message
FormattedText(ts) == <<Timestamp(ts), ts>>

FormattedMessage(ts) ==
    [text |-> FormattedText(ts), timestamp |-> Timestamp(ts), id |-> ts]

\* Variant: the ids of the appended messages are recorded after the loop,
\* not as each is appended
RECURSIVE MergeLoopNoRecord(_, _, _, _)
MergeLoopNoRecord(msgs, ids, added, batch) ==
    IF batch = <<>>
    THEN [messages |-> msgs,
          messageIDs |-> ids \cup {msgs[i].id : i \in 1..Len(msgs)},
          messagesAdded |-> added]
    ELSE IF Head(batch) \in ids
         THEN MergeLoopNoRecord(msgs, ids, added, Tail(batch))
         ELSE MergeLoopNoRecord(Append(msgs, FormattedMessage(Head(batch))),
                                ids, TRUE, Tail(batch))

\* Variant: no message is skipped
RECURSIVE MergeLoopNoSkip(_, _, _, _)
MergeLoopNoSkip(msgs, ids, added, batch) ==
    IF batch = <<>>
    THEN [messages |-> msgs, messageIDs |-> ids, messagesAdded |-> added]
    ELSE MergeLoopNoSkip(Append(msgs, FormattedMessage(Head(batch))),
                         ids \cup {Head(batch)}, TRUE, Tail(batch))

\* Variant: the loop ends at the first message already seen (break for continue)
RECURSIVE MergeLoopBreak(_, _, _, _)
MergeLoopBreak(msgs, ids, added, batch) ==
    IF batch = <<>> \/ Head(batch) \in ids
    THEN [messages |-> msgs, messageIDs |-> ids, messagesAdded |-> added]
    ELSE MergeLoopBreak(Append(msgs, FormattedMessage(Head(batch))),
                        ids \cup {Head(batch)}, TRUE, Tail(batch))

\* The loop over msg.messages: a message whose id is in messageIDs is
\* skipped, any other is appended and its id recorded.
RECURSIVE MergeLoop(_, _, _, _)
MergeLoop(msgs, ids, added, batch) ==
    IF batch = <<>>
    THEN [messages |-> msgs, messageIDs |-> ids, messagesAdded |-> added]
    ELSE IF Head(batch) \in ids
         THEN MergeLoop(msgs, ids, added, Tail(batch))
         ELSE MergeLoop(Append(msgs, FormattedMessage(Head(batch))),
                        ids \cup {Head(batch)}, TRUE, Tail(batch))

\* The less function given to sort.Slice
Before(a, b) == a.timestamp < b.timestamp

\* The orderings of the elements of s at the indices in rest that no
\* element precedes an earlier one under Before: each starts with an element
\* that none of the others is Before.
RECURSIVE SortedOrders(_, _)
SortedOrders(s, rest) ==
    IF rest = {} THEN {<<>>}
    ELSE UNION {{<<s[i]>> \o t : t \in SortedOrders(s, rest \ {i})} :
                   i \in {j \in rest : \A k \in rest : ~Before(s[k], s[j])}}

\* Variant: the sort is left out
SortSliceNone(s) == {s}

\* sort.Slice is not stable: any ordering of s that is sorted under Before
\* may come out.
SortSlice(s) == SortedOrders(s, 1..Len(s))

\* updateViewportContent: one line per stored message, in store order
Content(msgs) == [i \in 1..Len(msgs) |-> msgs[i].text]

\* Number of fetchMessages commands in a returned command list
RECURSIVE NumFetch(_)
NumFetch(cs) ==
    IF cs = <<>> THEN 0
    ELSE (IF Head(cs).cmd = "fetchMessages" THEN 1 ELSE 0) + NumFetch(Tail(cs))

RECURSIVE NumTick(_)
NumTick(cs) ==
    IF cs = <<>> THEN 0
    ELSE (IF Head(cs).cmd = "tick" THEN 1 ELSE 0) + NumTick(Tail(cs))

----------------------------------------------------------------------------
(* Messages passed to Update.  The fields of every record of the module   *)
(* are written in one fixed order: variables' names first, as declared.    *)

KeyMsg(t, r) ==
    [messages |-> <<>>, err |-> NoErr, type |-> t, rune |-> r,
     isNil |-> TRUE, seq |-> 0]

\* fetchMessagesMsg{messages, err}; seq is the tea.Sequence whose settle
\* tick produced it, 0 for the result of a fetchMessages command
FetchMessagesMsg(nil, msgs, e, k) ==
    [messages |-> msgs, err |-> e, type |-> "fetchMessagesMsg", rune |-> "",
     isNil |-> nil, seq |-> k]

\* sendMessageMsg{resp, err} of the send of sequence k
SendMessageMsg(e, k) ==
    [messages |-> <<>>, err |-> e, type |-> "sendMessageMsg", rune |-> "",
     isNil |-> TRUE, seq |-> k]

TickMsg == KeyMsg("tickMsg", "")
RedrawViewportMsg == KeyMsg("redrawViewportMsg", "")
WindowSizeMsg == KeyMsg("tea.WindowSizeMsg", "")
InitMsg == KeyMsg("Init", "")

----------------------------------------------------------------------------
(* The runtime: what bubbletea does with the commands Update returned *)

\* A fetchMessages command starts running, a tick() timer is armed;
\* `done` fetches and `fired` timers are the ones whose message is being
\* delivered in this step.
Launch(done, fired) ==
    /\ fetching' = (fetching - done) + NumFetch(cmds')
    /\ timers' = (timers - fired) + NumTick(cmds')

\* Sequence k moves to stage `to`, its send having ended `result`; the fetches
\* Update returned for its message are counted as its refreshes.
Advance(k, to, result) ==
    seqs' = [seqs EXCEPT ![k] = [stage |-> to, sent |-> result,
                                 refreshes |-> @.refreshes + NumFetch(cmds')]]

----------------------------------------------------------------------------
(* initialModel and Init *)

InitialHistoryFiles == {<<>>}

initialModel(file) ==
    /\ messages = <<>>
    /\ messageIDs = {}
    /\ viewport = <<>>
    /\ err = NoErr
    /\ ready = FALSE
    /\ lastFetched = EmptyTs
    /\ input = <<>>
    /\ history = file
    /\ historyIndex = Len(file)
    /\ browsingHist = FALSE
    /\ refreshCount = 0
    /\ historyFile = file

\* model.Init: tea.Batch(EnterAltScreen, fetchMessages(lastFetched), Blink, tick())
Init ==
    /\ \E file \in InitialHistoryFiles : initialModel(file)
    /\ lastMsg = InitMsg
    /\ cmds = <<FetchCmd(EmptyTs), TickCmd>>
    /\ fetching = 1
    /\ timers = 1
    /\ seqs = <<>>
    /\ quit = FALSE

----------------------------------------------------------------------------
(* History *)

\* Variant: the file is written before the entry is appended in memory, so
\* a failed write leaves the history as it was
appendToHistoryWriteFirst(message, writeOk) ==
    IF TrimSpace(message) = <<>>
    THEN [err |-> NoErr, history |-> history,
          historyIndex |-> historyIndex, historyFile |-> historyFile]
    ELSE IF Len(history) > 0 /\ history[Len(history)] = message
    THEN [err |-> NoErr, history |-> history,
          historyIndex |-> historyIndex, historyFile |-> historyFile]
    ELSE IF ~writeOk
    THEN [err |-> WriteError, history |-> history,
          historyIndex |-> historyIndex, historyFile |-> historyFile]
    ELSE [err |-> NoErr,
          history |-> Append(history, message),
          historyIndex |-> Len(history) + 1,
          historyFile |-> Append(historyFile, message)]

\* Variant: the last entry is not compared with the message
appendToHistoryNoDupCheck(message, writeOk) ==
    IF TrimSpace(message) = <<>>
    THEN [err |-> NoErr, history |-> history,
          historyIndex |-> historyIndex, historyFile |-> historyFile]
    ELSE [err |-> IF writeOk THEN NoErr ELSE WriteError,
          history |-> Append(history, message),
          historyIndex |-> Len(history) + 1,
          historyFile |-> IF writeOk THEN Append(historyFile, message)
                          ELSE historyFile]

\* appendToHistory(message); writeOk says whether the file could be opened
\* and written.  Gives the new history, index, file and the error returned.
appendToHistory(message, writeOk) ==
    IF TrimSpace(message) = <<>>
    THEN [err |-> NoErr, history |-> history,
          historyIndex |-> historyIndex, historyFile |-> historyFile]
    ELSE IF Len(history) > 0 /\ history[Len(history)] = message
    THEN [err |-> NoErr, history |-> history,
          historyIndex |-> historyIndex, historyFile |-> historyFile]
    ELSE [err |-> IF writeOk THEN NoErr ELSE WriteError,
          history |-> Append(history, message),
          historyIndex |-> Len(history) + 1,
          historyFile |-> IF writeOk THEN Append(historyFile, message)
                          ELSE historyFile]

\* Variant: the input is set even when the index does not move
navigateHistoryAlways(direction) ==
    LET raw == historyIndex + direction
        newIndex == IF raw < 0 THEN 0
                    ELSE IF raw > Len(history) THEN Len(history) ELSE raw
    IN  /\ historyIndex' = newIndex
        /\ input' = IF newIndex = Len(history) THEN <<>>
                    ELSE IF Len(history) > 0 THEN history[newIndex + 1]
                    ELSE input
        /\ browsingHist' = (newIndex < Len(history))

\* navigateHistory(direction)
navigateHistory(direction) ==
    LET raw == historyIndex + direction
        newIndex == IF raw < 0 THEN 0
                    ELSE IF raw > Len(history) THEN Len(history) ELSE raw
    IN  IF newIndex # historyIndex
        THEN /\ historyIndex' = newIndex
             /\ input' = IF newIndex = Len(history) THEN <<>>
                         ELSE IF Len(history) > 0 THEN history[newIndex + 1]
                         ELSE input
             /\ browsingHist' = (newIndex < Len(history))
        ELSE UNCHANGED <<historyIndex, input, browsingHist>>

----------------------------------------------------------------------------
(* The message store *)

Store ==
    [messages |-> messages, messageIDs |-> messageIDs,
     viewport |-> viewport, lastFetched |-> lastFetched]

\* Variant: lastFetched is set for every non-empty batch, outside the
\* messagesAdded block
MergeAlwaysAdvance(store, batch) ==
    LET r == MergeLoop(store.messages, store.messageIDs, FALSE, batch)
    IN  IF Len(batch) > 0 /\ r.messagesAdded
        THEN {[messages |-> t, messageIDs |-> r.messageIDs,
               viewport |-> Content(t), lastFetched |-> batch[1]] :
                  t \in SortSlice(r.messages)}
        ELSE IF Len(batch) > 0
        THEN {[messages |-> store.messages, messageIDs |-> store.messageIDs,
               viewport |-> store.viewport, lastFetched |-> batch[1]]}
        ELSE {store}

\* Variant: the viewport is not updated after the sort
MergeStaleView(store, batch) ==
    LET r == MergeLoop(store.messages, store.messageIDs, FALSE, batch)
    IN  IF Len(batch) > 0 /\ r.messagesAdded
        THEN {[messages |-> t, messageIDs |-> r.messageIDs,
               viewport |-> store.viewport, lastFetched |-> batch[1]] :
                  t \in SortSlice(r.messages)}
        ELSE {store}

\* The stores a successful fetch result `batch` may leave: the merge loop,
\* and when a message was added the sort, the new lastFetched and the
\* viewport update.
Merge(store, batch) ==
    LET r == MergeLoop(store.messages, store.messageIDs, FALSE, batch)
    IN  IF Len(batch) > 0 /\ r.messagesAdded
        THEN {[messages |-> t, messageIDs |-> r.messageIDs,
               viewport |-> Content(t), lastFetched |-> batch[1]] :
                  t \in SortSlice(r.messages)}
        ELSE {store}

----------------------------------------------------------------------------
(* Commands returned by the branches of Update *)

\* Variant: the refresh is batched with the send instead of sequenced after it
SubmitCmdsBatched == <<SequenceCmd, FetchCmd(EmptyTs)>>

\* Variant: nothing is sent while an error is shown
SubmitCmdsUnlessErr == IF err # NoErr THEN <<>> ELSE <<SequenceCmd>>

\* tea.KeyEnter with non-blank input: tea.Sequence(sendMessage, tea.Tick(500ms))
SubmitCmds == <<SequenceCmd>>

\* Variant: polling pauses while an error is shown
TickCmdsUnlessErr ==
    IF err # NoErr THEN <<>> ELSE <<TickCmd, FetchCmd(lastFetched)>>

\* tickMsg: tick() and fetchMessages(lastFetched)
TickCmds == <<TickCmd, FetchCmd(lastFetched)>>

\* Variant: the refresh asks for the page after the sync cursor
RefreshCmdsIncremental == <<FetchCmd(lastFetched)>>

\* fetchMessagesMsg with nil messages and no error
RefreshCmds == <<FetchCmd(EmptyTs)>>

\* Variant: the fetch after a send asks for the page after the sync cursor
SentCmdsIncremental == <<FetchCmd(lastFetched)>>

\* sendMessageMsg without error
SentCmds == <<FetchCmd(EmptyTs)>>

\* Variant: the failure is not stored
StoredErrDropped(e) == err

\* the error of a failed fetch or send, as stored in m.err
StoredErr(e) == e

\* Variant: a branch without error clears m.err
KeptErrCleared == NoErr

\* m.err after a branch of Update that stores no error
KeptErr == err

----------------------------------------------------------------------------
(* Update, one action per message *)

\* Variant: the refresh is launched for len(msg.messages) == 0, not only for
\* msg.messages == nil
UpdateFetchMessagesMsgEmptyAsNil(msg) ==
    IF msg.err # NoErr
    THEN /\ err' = StoredErr(msg.err)
         /\ cmds' = <<>>
         /\ UNCHANGED <<messages, messageIDs, lastFetched, viewport>>
    ELSE IF msg.isNil \/ msg.messages = <<>>
    THEN /\ cmds' = RefreshCmds
         /\ err' = KeptErr
         /\ UNCHANGED <<messages, messageIDs, lastFetched, viewport>>
    ELSE /\ \E s \in Merge(Store, msg.messages) :
               /\ messages' = s.messages
               /\ messageIDs' = s.messageIDs
               /\ lastFetched' = s.lastFetched
               /\ viewport' = s.viewport
         /\ err' = KeptErr
         /\ cmds' = <<>>

\* case fetchMessagesMsg
UpdateFetchMessagesMsg(msg) ==
    IF msg.err # NoErr
    THEN /\ err' = StoredErr(msg.err)
         /\ cmds' = <<>>
         /\ UNCHANGED <<messages, messageIDs, lastFetched, viewport>>
    ELSE IF msg.isNil
    THEN /\ cmds' = RefreshCmds
         /\ err' = KeptErr
         /\ UNCHANGED <<messages, messageIDs, lastFetched, viewport>>
    ELSE /\ \E s \in Merge(Store, msg.messages) :
               /\ messages' = s.messages
               /\ messageIDs' = s.messageIDs
               /\ lastFetched' = s.lastFetched
               /\ viewport' = s.viewport
         /\ err' = KeptErr
         /\ cmds' = <<>>

\* A key the text input takes
KeyRunes(c) ==
    /\ ~quit
    /\ Len(input) < MaxInput
    /\ lastMsg' = KeyMsg("tea.KeyRunes", c)
    /\ input' = Append(input, c)
    /\ cmds' = <<>>
    /\ UNCHANGED <<messages, messageIDs, viewport, err, ready, lastFetched,
                   history, historyIndex, browsingHist, refreshCount,
                   historyFile, taskVars>>

\* A key typed into the empty input
KeyRuneFirst(c) == input = <<>> /\ KeyRunes(c)

KeyEsc ==
    /\ ~quit
    /\ lastMsg' = KeyMsg("tea.KeyEsc", "")
    /\ cmds' = <<QuitCmd>>
    /\ quit' = TRUE
    /\ UNCHANGED <<modelVars, historyFile, timers, fetching, seqs>>

\* tea.KeyEnter, in a session of at most maxSeqs sent lines
KeyEnterUpTo(maxSeqs) ==
    /\ ~quit
    /\ lastMsg' = KeyMsg("tea.KeyEnter", "")
    /\ IF TrimSpace(input) # <<>>
       THEN /\ Len(seqs) < maxSeqs
            /\ \E writeOk \in BOOLEAN :
                  LET r == appendToHistory(input, writeOk)
                  IN  /\ history' = r.history
                      /\ historyIndex' = r.historyIndex
                      /\ historyFile' = r.historyFile
                      /\ err' = IF r.err # NoErr THEN r.err ELSE KeptErr
            /\ cmds' = SubmitCmds
            /\ input' = <<>>
            /\ browsingHist' = FALSE
            /\ seqs' = Append(seqs, [stage |-> "send", sent |-> "pending",
                                     refreshes |-> NumFetch(cmds')])
       ELSE /\ cmds' = <<>>
            /\ UNCHANGED <<history, historyIndex, historyFile, err, input,
                           browsingHist, seqs>>
    /\ Launch(0, 0)
    /\ UNCHANGED <<messages, messageIDs, viewport, ready, lastFetched,
                   refreshCount, quit>>

KeyEnter == KeyEnterUpTo(MaxSubmits)

KeyEnterHist == KeyEnterUpTo(MaxHistSubmits)

KeyUp ==
    /\ ~quit
    /\ lastMsg' = KeyMsg("tea.KeyUp", "")
    /\ navigateHistory(-1)
    /\ cmds' = <<>>
    /\ UNCHANGED <<messages, messageIDs, viewport, err, ready, lastFetched,
                   history, refreshCount, historyFile, taskVars>>

KeyDown ==
    /\ ~quit
    /\ lastMsg' = KeyMsg("tea.KeyDown", "")
    /\ navigateHistory(1)
    /\ cmds' = <<>>
    /\ UNCHANGED <<messages, messageIDs, viewport, err, ready, lastFetched,
                   history, refreshCount, historyFile, taskVars>>

WindowSize ==
    /\ ~quit
    /\ lastMsg' = WindowSizeMsg
    /\ ready' = TRUE
    /\ viewport' = Content(messages)
    /\ cmds' = <<>>
    /\ UNCHANGED <<messages, messageIDs, err, lastFetched, input, history,
                   historyIndex, browsingHist, refreshCount, historyFile,
                   taskVars>>

\* case redrawViewportMsg.  No command of the program sends the message
\* (redrawViewport is never called); the action is the handler, for a
\* message sent to the program from outside.
RedrawViewport ==
    /\ ~quit
    /\ lastMsg' = RedrawViewportMsg
    /\ viewport' = Content(messages)
    /\ cmds' = <<>>
    /\ UNCHANGED <<messages, messageIDs, err, ready, lastFetched, input,
                   history, historyIndex, browsingHist, refreshCount,
                   historyFile, taskVars>>

\* A poll timer fires
Tick ==
    /\ ~quit
    /\ timers > 0
    /\ refreshCount < MaxTicks
    /\ lastMsg' = TickMsg
    /\ refreshCount' = refreshCount + 1
    /\ cmds' = TickCmds
    /\ Launch(0, 1)
    /\ UNCHANGED <<messages, messageIDs, viewport, err, ready, lastFetched,
                   input, history, historyIndex, browsingHist, historyFile,
                   seqs, quit>>

\* A running fetchMessages command delivers msg
FetchDone(msg) ==
    /\ ~quit
    /\ fetching > 0
    /\ lastMsg' = msg
    /\ UpdateFetchMessagesMsg(msg)
    /\ Launch(1, 0)
    /\ UNCHANGED <<ready, input, history, historyIndex, browsingHist,
                   refreshCount, historyFile, seqs, quit>>

\* client.History failed
FetchFails == FetchDone(FetchMessagesMsg(TRUE, <<>>, FetchError, 0))

\* client.History gave no Messages slice
FetchReturnsNil == FetchDone(FetchMessagesMsg(TRUE, <<>>, NoErr, 0))

\* client.History gave an empty Messages slice
FetchReturnsEmpty == FetchDone(FetchMessagesMsg(FALSE, <<>>, NoErr, 0))

FetchReturns(batch) == FetchDone(FetchMessagesMsg(FALSE, batch, NoErr, 0))

\* The send of sequence k ends with error e (NoErr: it succeeded)
SendDone(k, e) ==
    /\ ~quit
    /\ k \in 1..Len(seqs)
    /\ seqs[k].stage = "send"
    /\ lastMsg' = SendMessageMsg(e, k)
    /\ IF e # NoErr
       THEN /\ err' = StoredErr(e)
            /\ cmds' = <<>>
       ELSE /\ err' = KeptErr
            /\ cmds' = SentCmds
    /\ Advance(k, "settle", IF e = NoErr THEN "ok" ELSE "failed")
    /\ Launch(0, 0)
    /\ UNCHANGED <<messages, messageIDs, viewport, ready, lastFetched, input,
                   history, historyIndex, browsingHist, refreshCount,
                   historyFile, quit>>

SendSucceeds(k) == SendDone(k, NoErr)

SendFails(k) == SendDone(k, SendError)

\* The 500ms tick of sequence k fires: fetchMessagesMsg{nil, nil}
SettleTick(k) ==
    /\ ~quit
    /\ k \in 1..Len(seqs)
    /\ seqs[k].stage = "settle"
    /\ lastMsg' = FetchMessagesMsg(TRUE, <<>>, NoErr, k)
    /\ UpdateFetchMessagesMsg(lastMsg')
    /\ Advance(k, "done", seqs[k].sent)
    /\ Launch(0, 0)
    /\ UNCHANGED <<ready, input, history, historyIndex, browsingHist,
                   refreshCount, historyFile, quit>>

Next ==
    \/ \E c \in Chars : KeyRuneFirst(c)
    \/ KeyEnter
    \/ KeyUp
    \/ KeyDown
    \/ KeyEsc
    \/ WindowSize
    \/ Tick
    \/ FetchFails
    \/ FetchReturnsNil
    \/ FetchReturnsEmpty
    \/ \E batch \in SessionBatches : FetchReturns(batch)
    \/ \E k \in 1..MaxSubmits : SendSucceeds(k)
    \/ \E k \in 1..MaxSubmits : SendFails(k)
    \/ \E k \in 1..MaxSubmits : SettleTick(k)

\* A whole session: keys, submits of one-character lines, polls; the service
\* serves SessionBatches.
Spec == Init /\ [][Next]_vars

\* A session in which nothing is typed: polls only, the service may return
\* any batch of Batches.
WatchNext ==
    \/ KeyEsc
    \/ WindowSize
    \/ Tick
    \/ FetchFails
    \/ FetchReturnsNil
    \/ FetchReturnsEmpty
    \/ \E batch \in Batches : FetchReturns(batch)

WatchSpec == Init /\ [][WatchNext]_vars

\* A whole session in which every settle tick that is due fires eventually.
LiveSpec == Spec /\ \A k \in 1..MaxSubmits : WF_vars(SettleTick(k))

ViewNext ==
    \/ Next
    \/ RedrawViewport

\* A whole session that is also sent redraw requests
ViewSpec == Init /\ [][ViewNext]_vars

\* The batch is ordered newest first (the assumption of C17 about the pages
\* client.History returns)
NewestFirst(batch) ==
    \A i \in 1..(Len(batch) - 1) : batch[i] > batch[i + 1]

OrderedBatches == {b \in Batches : NewestFirst(b)}

OrderedNext ==
    \/ KeyEsc
    \/ WindowSize
    \/ Tick
    \/ FetchFails
    \/ FetchReturnsNil
    \/ FetchReturnsEmpty
    \/ \E batch \in OrderedBatches : FetchReturns(batch)

\* A session in which nothing is typed and the service returns every batch
\* newest first; the fetches in flight may complete in any order.
OrderedSpec == Init /\ [][OrderedNext]_vars

\* The lines that can be typed and are not blank
Lines ==
    {l \in UNION {[1..n -> Chars] : n \in 1..MaxInput} : TrimSpace(l) # <<>>}

\* The history files a session may find: lines earlier sessions submitted
HistoryFiles == UNION {[1..n -> Lines] : n \in 0..MaxFileLines}

HistInit ==
    /\ \E file \in HistoryFiles : initialModel(file)
    /\ lastMsg = InitMsg
    /\ cmds = <<FetchCmd(EmptyTs), TickCmd>>
    /\ fetching = 1
    /\ timers = 1
    /\ seqs = <<>>
    /\ quit = FALSE

HistNext ==
    \/ \E c \in Chars : KeyRunes(c)
    \/ KeyEnterHist
    \/ KeyUp
    \/ KeyDown
    \/ KeyEsc

\* A session at the keyboard while the service does not answer: lines are
\* typed, recalled and submitted, the sends and fetches stay in flight.
HistSpec == HistInit /\ [][HistNext]_vars

----------------------------------------------------------------------------
(* Claims *)

Submits == 1..Len(seqs)

\* The message just handled came from sequence k
FromSeq(k) == lastMsg.seq = k

\* C1: a refresh fetch of a submit is launched only after the completion
\* event of its send was delivered: while the send of a sequence is pending
\* (and for ever, if it never completes) no fetch has been launched for it,
\* and a step that launches one handles a message of a sequence whose send
\* has ended.
C1_SendRefreshOrdering ==
    \A k \in Submits :
        /\ seqs[k].stage = "send" =>
              seqs[k].sent = "pending" /\ seqs[k].refreshes = 0
        /\ FromSeq(k) /\ NumFetch(cmds) > 0 => seqs[k].sent # "pending"

\* A sequence has launched a refresh while another fetch was still running
C1_Witness ==
    \E k \in Submits :
        /\ FromSeq(k)
        /\ NumFetch(cmds) > 0
        /\ seqs[k].refreshes > 0
        /\ fetching > 1

\* C2 as stated: a successful send completion launches nothing, and a
\* submit whose send succeeded has one refresh fetch, launched by the
\* settle tick.
C2_SendLaunchesNothing ==
    /\ lastMsg.type = "sendMessageMsg" /\ lastMsg.err = NoErr => cmds = <<>>
    /\ \A k \in Submits :
          seqs[k].sent = "ok" /\ seqs[k].stage = "done" => seqs[k].refreshes = 1

\* C2 amended: a successful send completion changes no field of the model
\* and launches one fetch of the most recent page at once; the settle tick
\* launches a second one, so a submit whose send succeeded has exactly two
\* refresh fetches, the second only after the settle delay.
C2_SendLaunchesOneFetch ==
    /\ [](lastMsg.type = "sendMessageMsg" /\ lastMsg.err = NoErr =>
             cmds = <<FetchCmd(EmptyTs)>>)
    /\ [](\A k \in Submits :
             seqs[k].sent = "ok" =>
                /\ seqs[k].stage = "settle" => seqs[k].refreshes = 1
                /\ seqs[k].stage = "done" => seqs[k].refreshes = 2)
    /\ [][lastMsg'.type = "sendMessageMsg" /\ lastMsg'.err = NoErr =>
             modelVars' = modelVars]_vars

\* A send succeeded while an error was shown and the sync cursor was set,
\* and its sequence has ended
C2_Witness ==
    \E k \in Submits :
        /\ seqs[k].sent = "ok"
        /\ seqs[k].stage = "done"
        /\ seqs[k].refreshes = 2
        /\ err # NoErr
        /\ lastFetched # EmptyTs

\* The settle tick of sequence k was just handled
Settled(k) ==
    /\ FromSeq(k)
    /\ lastMsg.type = "fetchMessagesMsg"
    /\ seqs[k].stage = "done"

\* C3: once the send of a submit has completed, with or without error, the
\* follow-up fetch is eventually launched (in a session that is not quit
\* first, the settle tick being fired fairly); a failed send stores its
\* error and leaves the sequence going; the fetch launched for the settle
\* tick asks for the most recent page (the empty cursor), whatever the sync
\* cursor is.
C3_RefreshFollowsSend ==
    /\ \A k \in 1..MaxSubmits :
          (k \in Submits /\ seqs[k].stage = "settle")
             ~> (quit \/ (k \in Submits /\ Settled(k) /\ NumFetch(cmds) = 1))
    /\ [](lastMsg.type = "sendMessageMsg" /\ lastMsg.err # NoErr =>
             /\ err = lastMsg.err
             /\ seqs[lastMsg.seq].stage = "settle"
             /\ seqs[lastMsg.seq].sent = "failed")
    /\ [](\A k \in Submits : Settled(k) => cmds = <<FetchCmd(EmptyTs)>>)

\* The refresh after a failed send was launched while the sync cursor was set
C3_Witness ==
    \E k \in Submits :
        /\ Settled(k)
        /\ seqs[k].sent = "failed"
        /\ cmds = <<FetchCmd(EmptyTs)>>
        /\ lastFetched # EmptyTs
        /\ err = SendError

\* The last message was a successful fetch result with a non-empty batch
FetchedBatch ==
    /\ lastMsg.type = "fetchMessagesMsg"
    /\ lastMsg.err = NoErr
    /\ ~lastMsg.isNil
    /\ Len(lastMsg.messages) > 0

StoredIds == {messages[i].id : i \in 1..Len(messages)}

\* C4: no two stored messages share an id, and messageIDs is exactly the
\* set of the ids of the stored messages.
C4_UniqueIds ==
    /\ \A i, j \in 1..Len(messages) : messages[i].id = messages[j].id => i = j
    /\ messageIDs = StoredIds

\* A batch holding the same id twice was merged into a store that holds
\* other messages too
C4_Witness ==
    /\ FetchedBatch
    /\ Len(lastMsg.messages) = 2
    /\ lastMsg.messages[1] = lastMsg.messages[2]
    /\ lastFetched = lastMsg.messages[1]
    /\ Len(messages) >= 2

\* C5: the stored messages are in non-decreasing order of timestamp.
C5_SortInvariant ==
    \A i \in 1..(Len(messages) - 1) :
        messages[i].timestamp <= messages[i + 1].timestamp

\* A batch brought a message older than one already stored: it stands
\* before it
C5_Witness ==
    /\ FetchedBatch
    /\ Len(lastMsg.messages) = 1
    /\ lastFetched = lastMsg.messages[1]
    /\ Len(messages) >= 2
    /\ messages[1].id = lastMsg.messages[1]
    /\ messages[1].timestamp < messages[Len(messages)].timestamp

\* C6: for every batch, delivering it again right after it was delivered
\* changes neither the stored messages, nor messageIDs, nor lastFetched.
C6_DedupIdempotence ==
    \A b \in Batches :
        \A s1 \in Merge(Store, b) : Merge(s1, b) = {s1}

\* A batch was just merged; a second delivery of it is the case of C6
C6_Witness ==
    /\ FetchedBatch
    /\ lastFetched = lastMsg.messages[1]
    /\ \A i \in 1..Len(lastMsg.messages) : lastMsg.messages[i] \in messageIDs
    /\ Len(messages) > Len(lastMsg.messages)
    /\ fetching > 0

SetOf(s) == {s[i] : i \in 1..Len(s)}

\* C7: with two fetches in flight, whatever their batches, the set of
\* stored messages after both results were applied does not depend on
\* which came first, and the sequence is sorted by timestamp either way.
C7_OrderIndependent ==
    [](fetching >= 2 =>
        \A b1, b2 \in Batches :
            \A s1 \in Merge(Store, b1), s2 \in Merge(Store, b2) :
                \A s12 \in Merge(s1, b2), s21 \in Merge(s2, b1) :
                    /\ SetOf(s12.messages) = SetOf(s21.messages)
                    /\ s12.messageIDs = s21.messageIDs
                    /\ \A i \in 1..(Len(s12.messages) - 1) :
                          s12.messages[i].timestamp
                             <= s12.messages[i + 1].timestamp
                    /\ \A i \in 1..(Len(s21.messages) - 1) :
                          s21.messages[i].timestamp
                             <= s21.messages[i + 1].timestamp)

\* Two fetches are in flight over a store that already holds messages
C7_Witness ==
    /\ fetching >= 2
    /\ Len(messages) >= 2
    /\ ~quit

\* C8: every poll tick arms one timer and launches one fetchMessages with
\* the current lastFetched, whatever the state of the session, so that one
\* poll timer is armed at all times.
C8_PollingGoesOn ==
    /\ timers = 1
    /\ lastMsg.type = "tickMsg" => cmds = <<TickCmd, FetchCmd(lastFetched)>>

\* A tick was handled while an error was shown, a history line was being
\* browsed, a fetch was still in flight and the sync cursor was set
C8_Witness ==
    /\ lastMsg.type = "tickMsg"
    /\ err # NoErr
    /\ browsingHist
    /\ fetching >= 2
    /\ lastFetched # EmptyTs
    /\ refreshCount = MaxTicks

\* C9: a fetch that fails stores its error in m.err and leaves the stored
\* messages, messageIDs and lastFetched as they were.
C9_FetchFailure ==
    [][lastMsg'.type = "fetchMessagesMsg" /\ lastMsg'.err # NoErr =>
          /\ err' = lastMsg'.err
          /\ UNCHANGED <<messages, messageIDs, lastFetched>>]_vars

\* A fetch failed over a store that holds messages
C9_Witness ==
    /\ lastMsg.type = "fetchMessagesMsg"
    /\ lastMsg.err = FetchError
    /\ err = FetchError
    /\ Len(messages) >= 2
    /\ lastFetched # EmptyTs

\* C10: once m.err is set no step clears it; it changes only by taking a
\* newer error (that of the failed fetch or send just handled, or of the
\* history write of the submit just handled).
C10_StickyError ==
    [][/\ err # NoErr => err' # NoErr
       /\ err' # err =>
             \/ err' = lastMsg'.err /\ err' # NoErr
             \/ err' = WriteError /\ lastMsg'.type = "tea.KeyEnter"]_vars

\* A send succeeded and then a fetch brought a message, both while the
\* error of a failed history write was shown
C10_Witness ==
    /\ err = WriteError
    /\ FetchedBatch
    /\ lastFetched = lastMsg.messages[1]
    /\ \E k \in Submits : seqs[k].sent = "ok"

\* The step handles tea.KeyEnter with non-blank input
SubmitStep ==
    /\ lastMsg'.type = "tea.KeyEnter"
    /\ TrimSpace(input) # <<>>

\* The history a submit of `line` leaves
Offered(line) ==
    IF Len(history) > 0 /\ history[Len(history)] = line
    THEN history ELSE Append(history, line)

\* The step launches one more send-then-refresh sequence, its send running
SequenceLaunched ==
    /\ cmds' = <<SequenceCmd>>
    /\ Len(seqs') = Len(seqs) + 1
    /\ seqs'[Len(seqs')].stage = "send"
    /\ seqs'[Len(seqs')].sent = "pending"
    /\ \A k \in Submits : seqs'[k] = seqs[k]

\* C11: a submit of non-blank input while m.err is set does what a submit
\* does when it is not.  Whatever m.err is, the line is offered to the
\* history, the send-then-refresh sequence is launched, the input is
\* cleared and browsing ends; m.err stays as it was, or gives way to the
\* error of the history write.
C11_SubmitDespiteError ==
    [][SubmitStep =>
          /\ history' = Offered(input)
          /\ SequenceLaunched
          /\ input' = <<>>
          /\ browsingHist' = FALSE
          /\ err' \in {err, WriteError}
          /\ UNCHANGED <<messages, messageIDs, viewport, lastFetched>>]_vars

\* A line was submitted, and stored in the history, while the error of a
\* failed fetch was shown
C11_Witness ==
    /\ lastMsg.type = "tea.KeyEnter"
    /\ err = FetchError
    /\ cmds = <<SequenceCmd>>
    /\ Len(seqs) = 1
    /\ seqs[1].stage = "send"
    /\ Len(history) = 1
    /\ input = <<>>

\* The line is the last entry of the history
IsLastEntry(line) == Len(history) > 0 /\ history[Len(history)] = line

\* C12: a submit of blank input appends no entry, a submit of the line that
\* is the last entry appends no entry, every other submit appends its line
\* as one entry; the history changes in no other way, so an appended entry
\* is neither blank nor equal to the entry before it.
C12_HistoryNoBlankNoDup ==
    [][/\ lastMsg'.type = "tea.KeyEnter" /\ TrimSpace(input) = <<>> =>
             history' = history
       /\ SubmitStep /\ IsLastEntry(input) => history' = history
       /\ SubmitStep /\ ~IsLastEntry(input) => history' = Append(history, input)
       /\ history' # history =>
             /\ Len(history') = Len(history) + 1
             /\ SubSeq(history', 1, Len(history)) = history
             /\ TrimSpace(history'[Len(history')]) # <<>>
             /\ ~IsLastEntry(history'[Len(history')])]_vars

\* Two lines were sent and the history holds one entry: the second line,
\* equal to the last entry, was not appended
C12_Witness ==
    /\ lastMsg.type = "tea.KeyEnter"
    /\ cmds = <<SequenceCmd>>
    /\ Len(seqs) = 2
    /\ Len(history) = 1
    /\ historyFile \in {<<>>, history}
    /\ historyIndex = 1

\* C13: the history index is within 0..len(history) in every state; a
\* recall-previous moves it down by one until it is 0 and then leaves it at
\* 0, a recall-next moves it up by one until it is len(history) and then
\* leaves it there; a recall that does not move the index changes neither
\* the index nor the input, one that moves it shows the entry it reached
\* (the empty input at len(history)).
C13_NavigationBounds ==
    /\ [](historyIndex \in 0..Len(history))
    /\ [][/\ lastMsg'.type = "tea.KeyUp" =>
                historyIndex' = IF historyIndex > 0 THEN historyIndex - 1 ELSE 0
          /\ lastMsg'.type = "tea.KeyDown" =>
                historyIndex' = IF historyIndex < Len(history)
                                THEN historyIndex + 1 ELSE Len(history)
          /\ lastMsg'.type \in {"tea.KeyUp", "tea.KeyDown"} =>
                /\ history' = history
                /\ IF historyIndex' = historyIndex
                   THEN input' = input
                   ELSE input' = IF historyIndex' = Len(history) THEN <<>>
                                 ELSE history[historyIndex' + 1]]_vars

\* A recall-next at the end of a history of two entries left the typed
\* line as it was
C13_Witness ==
    /\ lastMsg.type = "tea.KeyDown"
    /\ Len(history) = 2
    /\ historyIndex = 2
    /\ input # <<>>

\* C14: browsingHist is on exactly when the history index is below
\* len(history), and after a submit of non-blank input browsing is over:
\* browsingHist is off and the index is len(history).
C14_BrowsingAgreesWithCursor ==
    /\ browsingHist <=> historyIndex < Len(history)
    /\ lastMsg.type = "tea.KeyEnter" /\ cmds = <<SequenceCmd>> =>
          ~browsingHist /\ historyIndex = Len(history)

\* The step is a submit whose history write failed: the error of the write
\* appears, or the history grows and the file does not
WriteFailedStep ==
    /\ lastMsg'.type = "tea.KeyEnter"
    /\ \/ err' = WriteError /\ err # WriteError
       \/ Len(history') > Len(history) /\ historyFile' = historyFile

\* C15: when the history write of a submit fails, the line stays appended
\* to the in-memory history and the index is len(history), the failure is
\* stored in m.err, the send-then-refresh sequence of the submit is launched
\* and the input is cleared.
C15_WriteFailureKeepsEntry ==
    [][WriteFailedStep =>
          /\ history' = Append(history, input)
          /\ historyIndex' = Len(history')
          /\ historyFile' = historyFile
          /\ err' = WriteError
          /\ SequenceLaunched
          /\ input' = <<>>
          /\ browsingHist' = FALSE]_vars

\* The history write of the second line sent failed: the history is one
\* entry ahead of the file
C15_Witness ==
    /\ lastMsg.type = "tea.KeyEnter"
    /\ err = WriteError
    /\ cmds = <<SequenceCmd>>
    /\ Len(history) = 2
    /\ historyFile = <<history[1]>>
    /\ historyIndex = 2
    /\ input = <<>>
    /\ Len(seqs) = 2
    /\ seqs[2].stage = "send"

\* The step handles the successful result of a fetch, its Messages not nil
FetchedStep ==
    /\ lastMsg'.type = "fetchMessagesMsg"
    /\ lastMsg'.err = NoErr
    /\ ~lastMsg'.isNil

\* The batch the step handles holds a message that is not stored yet
BringsNew ==
    \E i \in 1..Len(lastMsg'.messages) : lastMsg'.messages[i] \notin messageIDs

\* C16 as stated: after a successful fetch with a non-empty batch,
\* lastFetched is the id of the first message of the batch, whether or not
\* the batch brought a new message.
C16_CursorIsFirstOfBatch ==
    FetchedBatch => lastFetched = lastMsg.messages[1]

\* C16 amended: after a successful fetch whose batch brought at least one
\* new message, lastFetched is the id of the first message of the batch; a
\* batch that brought none, empty or all seen, leaves lastFetched as it was.
C16_CursorFollowsNewMessages ==
    [][FetchedStep =>
          IF BringsNew
          THEN lastFetched' = lastMsg'.messages[1]
          ELSE lastFetched' = lastFetched]_vars

\* A batch of stored messages only, its first not the one lastFetched
\* names, was delivered: lastFetched stayed
C16_Witness ==
    /\ FetchedBatch
    /\ lastFetched # EmptyTs
    /\ lastFetched # lastMsg.messages[1]
    /\ \A i \in 1..Len(lastMsg.messages) : lastMsg.messages[i] \in messageIDs

\* C17: when lastFetched is not empty it is the id of a stored message and
\* no stored message has a later timestamp (every batch being ordered
\* newest first).
C17_CursorMarksNewest ==
    lastFetched # EmptyTs =>
        /\ lastFetched \in StoredIds
        /\ \A i \in 1..Len(messages) :
              messages[i].timestamp <= Timestamp(lastFetched)

\* The last message was a successful fetch result with an empty batch
FetchedEmpty ==
    /\ lastMsg.type = "fetchMessagesMsg"
    /\ lastMsg.err = NoErr
    /\ ~lastMsg.isNil
    /\ lastMsg.messages = <<>>

\* The last message was fetchMessagesMsg{nil, nil}, what the settle tick
\* of a sequence sends
SettleEvent ==
    /\ lastMsg.type = "fetchMessagesMsg"
    /\ lastMsg.err = NoErr
    /\ lastMsg.isNil

\* A fetch of the most recent page was launched for the last message, and
\* not by the poll (Init or a tick with an empty lastFetched)
RefreshLaunched ==
    /\ lastMsg.type \notin {"Init", "tickMsg"}
    /\ \E i \in 1..Len(cmds) : cmds[i] = FetchCmd(EmptyTs)

\* C18 as stated: a successful fetch result with an empty batch launches
\* no fetch, and only the settle event of a submit launches a fetch of the
\* most recent page.
C18_OnlySettleRefreshes ==
    /\ FetchedEmpty => cmds = <<>>
    /\ RefreshLaunched => SettleEvent

\* C18 amended: a successful fetch result with an empty batch changes no
\* field of the model and launches nothing; a fetch of the most recent page
\* is launched for fetchMessagesMsg{nil, nil} (one fetch, no state change)
\* and for a successful send completion, and for nothing else.
C18_EmptyBatchIsInert ==
    /\ [][lastMsg'.type = "fetchMessagesMsg" /\ lastMsg'.err = NoErr
             /\ ~lastMsg'.isNil /\ lastMsg'.messages = <<>> =>
                /\ cmds' = <<>>
                /\ modelVars' = modelVars
                /\ fetching' = fetching - 1]_vars
    /\ [][lastMsg'.type = "fetchMessagesMsg" /\ lastMsg'.err = NoErr
             /\ lastMsg'.isNil =>
                /\ cmds' = <<FetchCmd(EmptyTs)>>
                /\ modelVars' = modelVars]_vars
    /\ [](RefreshLaunched =>
             \/ SettleEvent
             \/ lastMsg.type = "sendMessageMsg" /\ lastMsg.err = NoErr)

\* Empty results came in while messages were stored and a line had been
\* sent: nothing but the poll is in flight after them
C18_Witness ==
    /\ FetchedEmpty
    /\ cmds = <<>>
    /\ fetching = 0
    /\ lastFetched # EmptyTs
    /\ \E k \in Submits : seqs[k].stage = "done"
    /\ refreshCount > 0

\* The place of the message with the given id in msgs
Pos(msgs, id) == CHOOSE k \in 1..Len(msgs) : msgs[k].id = id

\* C19: a merge keeps the relative order of two stored messages of equal
\* timestamp, and puts a new message after every stored message of the
\* same timestamp.
C19_StableResort ==
    [][/\ \A i, j \in 1..Len(messages) :
             i < j /\ messages[i].timestamp = messages[j].timestamp =>
                Pos(messages', messages[i].id) < Pos(messages', messages[j].id)
       /\ \A k \in 1..Len(messages') :
             messages'[k].id \notin messageIDs =>
                \A i \in 1..Len(messages) :
                    messages[i].timestamp = messages'[k].timestamp =>
                       Pos(messages', messages[i].id) < k]_vars

\* C20: after every step of Update the content set on the viewport is the
\* rendering of the stored messages, in store order.
C20_ViewNeverStale ==
    viewport = Content(messages)

\* A redraw request was handled after the first layout, with a message
\* stored
C20_Witness ==
    /\ lastMsg = RedrawViewportMsg
    /\ ready
    /\ Len(messages) > 0
    /\ viewport = <<FormattedText(messages[1].id)>>
    /\ \E k \in Submits : seqs[k].stage = "done"

============================================================================
